---- MODULE Spec2Model ----
(***************************************************************************)
(* Model of the MO2 Game-Registry-Proxy plugin                             *)
(* (src/src/mo2-game-registry-proxy/proxy.py and main.py).                 *)
(*                                                                         *)
(* The plugin registers two callbacks with Mod Organizer 2:                *)
(* Proxy.on_about_to_run, called before an executable is started, and      *)
(* Proxy.on_finished_run, called when it has stopped.  The first swaps the *)
(* "installed path" registry value of the managed game for the folder of   *)
(* the instance, the second writes the remembered value back.  Registry    *)
(* writes are done by an elevated reg.exe started with ShellExecuteW; the  *)
(* plugin does not wait for it.                                            *)
(***************************************************************************)
EXTENDS Integers, Sequences, FiniteSets, Bags, TLC

(***************************************************************************)
(* Bounds of the model.                                                    *)
(***************************************************************************)
\* Number of elevated reg.exe helpers that may be in flight at once.
MaxHelpers == 2

(***************************************************************************)
(* Strings the code splits, lower-cases or takes the base name of are      *)
(* sequences of one-character strings.                                     *)
(***************************************************************************)
Upper ==
    <<"A", "B", "C", "D", "E", "F", "G", "H", "I", "J", "K", "L", "M",
      "N", "O", "P", "Q", "R", "S", "T", "U", "V", "W", "X", "Y", "Z">>

LowerC ==
    <<"a", "b", "c", "d", "e", "f", "g", "h", "i", "j", "k", "l", "m",
      "n", "o", "p", "q", "r", "s", "t", "u", "v", "w", "x", "y", "z">>

\* str.lower() on one character
LowerChar(c) ==
    IF \E i \in 1..Len(Upper) : Upper[i] = c
    THEN LowerC[CHOOSE i \in 1..Len(Upper) : Upper[i] = c]
    ELSE c

\* str.lower()
lower(s) == [i \in 1..Len(s) |-> LowerChar(s[i])]

\* str.split(sep): the list of the pieces between the separators; the
\* empty string splits into one empty piece.
RECURSIVE split(_, _)
split(s, sep) ==
    IF \A i \in 1..Len(s) : s[i] # sep
    THEN <<s>>
    ELSE LET k == CHOOSE i \in 1..Len(s) :
                      s[i] = sep /\ \A j \in 1..(i - 1) : s[j] # sep
         IN  <<SubSeq(s, 1, k - 1)>> \o split(SubSeq(s, k + 1, Len(s)), sep)

\* Path(app_name).name on Windows: the part after the last "\" or "/".
PathName(p) ==
    LET seps == {i \in 1..Len(p) : p[i] \in {"\\", "/"}}
    IN  IF seps = {} THEN p
        ELSE LET k == CHOOSE i \in seps : \A j \in seps : j <= i
             IN  SubSeq(p, k + 1, Len(p))

(***************************************************************************)
(* Plugin settings (main.py).                                              *)
(***************************************************************************)
\* Default of the "disabled_apps" setting.
DefaultDisabledApps == "SkyrimSE.exe;skse64_loader.exe"

\* A user-edited "disabled_apps" setting: nothing excluded by name.
EmptyDisabledApps == ""

\* Values of the "disabled_apps" setting the model starts from.
DisabledAppsSettings == {DefaultDisabledApps, EmptyDisabledApps}

(***************************************************************************)
(* Executables the host launches (app_name is an absolute path).           *)
(***************************************************************************)
AppSkseUpper == "C:\\G\\SKSE64_LOADER.EXE"
AppLauncher == "C:/G/SkyrimSELauncher.exe"

Apps == {AppSkseUpper, AppLauncher}

\* The characters of the strings above.
Chars(s) ==
    CASE s = DefaultDisabledApps ->
           <<"S", "k", "y", "r", "i", "m", "S", "E", ".", "e", "x", "e", ";",
             "s", "k", "s", "e", "6", "4", "_", "l", "o", "a", "d", "e", "r",
             ".", "e", "x", "e">>
      [] s = EmptyDisabledApps -> <<>>
      [] s = AppSkseUpper ->
           <<"C", ":", "\\", "G", "\\", "S", "K", "S", "E", "6", "4", "_",
             "L", "O", "A", "D", "E", "R", ".", "E", "X", "E">>
      [] s = AppLauncher ->
           <<"C", ":", "/", "G", "/", "S", "k", "y", "r", "i", "m", "S", "E",
             "L", "a", "u", "n", "c", "h", "e", "r", ".", "e", "x", "e">>

\* Return codes the host reports.
ReturnCodes == {0, 1}

(***************************************************************************)
(* Proxy.GAME_REGISTRY_KEYS (proxy.py).                                    *)
(***************************************************************************)
HKEY_LOCAL_MACHINE == "HKEY_LOCAL_MACHINE"

GAME_REGISTRY_KEYS ==
    [g \in {"Enderal", "Fallout3", "Fallout4", "Fallout4VR", "FalloutNV",
            "Morrowind", "Oblivion", "Skyrim", "SkyrimSE", "SkyrimVR",
            "TTW"} |->
        CASE g = "Enderal" ->
               <<HKEY_LOCAL_MACHINE,
                 "Software\\WOW6432Node\\SureAI\\Enderal", "Install_Path">>
          [] g = "Fallout3" ->
               <<HKEY_LOCAL_MACHINE,
                 "Software\\WOW6432Node\\Bethesda Softworks\\Fallout3",
                 "Installed Path">>
          [] g = "Fallout4" ->
               <<HKEY_LOCAL_MACHINE,
                 "Software\\WOW6432Node\\Bethesda Softworks\\Fallout4",
                 "Installed Path">>
          [] g = "Fallout4VR" ->
               <<HKEY_LOCAL_MACHINE,
                 "Software\\WOW6432Node\\Bethesda Softworks\\Fallout 4 VR",
                 "Installed Path">>
          [] g = "FalloutNV" ->
               <<HKEY_LOCAL_MACHINE,
                 "Software\\WOW6432Node\\Bethesda Softworks\\FalloutNV",
                 "Installed Path">>
          [] g = "Morrowind" ->
               <<HKEY_LOCAL_MACHINE,
                 "Software\\WOW6432Node\\Bethesda Softworks\\Morrowind",
                 "Installed Path">>
          [] g = "Oblivion" ->
               <<HKEY_LOCAL_MACHINE,
                 "Software\\WOW6432Node\\Bethesda Softworks\\Oblivion",
                 "Installed Path">>
          [] g = "Skyrim" ->
               <<HKEY_LOCAL_MACHINE,
                 "Software\\WOW6432Node\\Bethesda Softworks\\Skyrim",
                 "Installed Path">>
          [] g = "SkyrimSE" ->
               <<HKEY_LOCAL_MACHINE,
                 "Software\\WOW6432Node\\Bethesda Softworks\\Skyrim Special Edition",
                 "Installed Path">>
          [] g = "SkyrimVR" ->
               <<HKEY_LOCAL_MACHINE,
                 "Software\\WOW6432Node\\Bethesda Softworks\\Skyrim VR",
                 "Installed Path">>
          [] g = "TTW" ->
               <<HKEY_LOCAL_MACHINE,
                 "Software\\WOW6432Node\\Bethesda Softworks\\FalloutNV",
                 "Installed Path">>]

\* The registry locations of the table.
Locations == {GAME_REGISTRY_KEYS[g] : g \in DOMAIN GAME_REGISTRY_KEYS}

\* gameShortName() of the managed games the model starts from; "Starfield"
\* is a game the table does not know.
ManagedGames == {"SkyrimSE", "Starfield"}

\* Python's None for a registry key tuple.
NoRegKey == <<>>

\* A lookup that falls back to a known game instead of returning None.
get_game_reg_key_fallback(game_name) ==
    IF game_name \notin DOMAIN GAME_REGISTRY_KEYS
    THEN GAME_REGISTRY_KEYS["SkyrimSE"]
    ELSE GAME_REGISTRY_KEYS[game_name]

\* A lookup whose "TTW" entry has a key of its own.
get_game_reg_key_no_alias(game_name) ==
    IF game_name \notin DOMAIN GAME_REGISTRY_KEYS
    THEN NoRegKey
    ELSE IF game_name = "TTW"
    THEN <<HKEY_LOCAL_MACHINE,
           "Software\\WOW6432Node\\Bethesda Softworks\\TTW",
           "Installed Path">>
    ELSE GAME_REGISTRY_KEYS[game_name]

\* Proxy.__get_game_reg_key
get_game_reg_key(game_name) ==
    IF game_name \notin DOMAIN GAME_REGISTRY_KEYS
    THEN NoRegKey
    ELSE GAME_REGISTRY_KEYS[game_name]

(***************************************************************************)
(* Registry values and paths.                                              *)
(***************************************************************************)
\* Python's None for an Optional[Path].
None == "<None>"

\* A registry location: the key may be missing, or the key exists and the
\* value is missing, or the value holds a string.
NoKeyEntry == [keyExists |-> FALSE, hasValue |-> FALSE, data |-> ""]
NoValueEntry == [keyExists |-> TRUE, hasValue |-> FALSE, data |-> ""]
Sz(s) == [keyExists |-> TRUE, hasValue |-> TRUE, data |-> s]

\* The folder the game was installed to, as installers write it.
OrigDir == "C:\\Games\\SkyrimSE"
OrigDirSlash == "C:\\Games\\SkyrimSE\\"
\* The game folder of the instance, gameDirectory().
GameDir == "D:\\Instance2\\SkyrimSE"
\* A folder that does not exist (any more).
MissingDir == "C:\\Missing"
\* The working directory of the host process.
WorkDir == "C:\\MO2"

\* What the registry location of the managed game may hold at start.
InitialEntries ==
    {NoKeyEntry, NoValueEntry, Sz(""), Sz(" "), Sz(OrigDir),
     Sz(OrigDirSlash), Sz(GameDir), Sz(MissingDir)}

\* str.strip() on the registry strings of the model.
strip(v) == IF v \in {"", " "} THEN "" ELSE v

\* QDir(value).canonicalPath(): absolute, links resolved, "/" separators, no
\* trailing separator; the empty string for a path that does not exist.
canonicalPath(v) ==
    CASE v = OrigDir -> "C:/Games/SkyrimSE"
      [] v = OrigDirSlash -> "C:/Games/SkyrimSE"
      [] v = GameDir -> "D:/Instance2/SkyrimSE"
      [] v = WorkDir -> "C:/MO2"
      [] v = "." -> "C:/MO2"
      [] OTHER -> ""

\* str(Path(q)) on Windows: "\" separators; Path("") is Path(".").
PathStr(q) ==
    CASE q = "C:/Games/SkyrimSE" -> OrigDir
      [] q = "D:/Instance2/SkyrimSE" -> GameDir
      [] q = "C:/MO2" -> WorkDir
      [] q = "" -> "."
      [] OTHER -> q

\* Proxy.get_game_folder
get_game_folder == PathStr(canonicalPath(GameDir))

\* Outcomes of winreg.OpenKey / QueryValueEx other than success and
\* FileNotFoundError (which the registry entry itself decides).
ReadFaults == {"none", "PermissionError"}

\* get_reg_value did not return: the exception left the function.
Raised == "<raised>"

\* Proxy.get_reg_value
get_reg_value(game_name, reg, fault) ==
    LET reg_key == get_game_reg_key(game_name) IN
    IF reg_key = NoRegKey THEN None
    ELSE IF fault # "none" THEN Raised
    ELSE LET e == reg[reg_key] IN
         IF ~e.keyExists THEN None
         ELSE IF ~e.hasValue THEN None
         ELSE IF strip(e.data) # "" THEN PathStr(canonicalPath(e.data))
         ELSE None

(***************************************************************************)
(* Registry writes.                                                        *)
(***************************************************************************)
\* Outcomes of ShellExecuteW(None, "runas", "reg.exe", ...): it raises, or
\* returns a code; codes up to 32 are errors.
LaunchOutcomes ==
    {[raises |-> TRUE, ret |-> 0]} \cup
    {[raises |-> FALSE, ret |-> r] : r \in {32, 33}}

NoWrite == "<no write>"

\* Proxy.set_reg_value: what it asks of the system.  issued: ShellExecuteW
\* was called; launch: how that went; a started reg.exe will set
\* value at key.
set_reg_value(game_name, value, outcome) ==
    LET reg_key == get_game_reg_key(game_name) IN
    IF reg_key = NoRegKey
    THEN [issued |-> FALSE, key |-> NoRegKey, value |-> NoWrite,
          launch |-> "n/a"]
    ELSE IF reg_key[1] # HKEY_LOCAL_MACHINE
    THEN [issued |-> FALSE, key |-> NoRegKey, value |-> NoWrite,
          launch |-> "n/a"]
    ELSE [issued |-> TRUE, key |-> reg_key, value |-> value,
          launch |-> IF outcome.raises THEN "exception"
                     ELSE IF outcome.ret <= 32 THEN "failed"
                     ELSE "started"]

\* ShellExecuteW is not reached.
NotCalled == [raises |-> FALSE, ret |-> 0]

\* The helpers in flight (a bag: they finish in any order) after
\* set_reg_value.
Launched(hs, req) ==
    IF req.launch = "started"
    THEN hs (+) SetToBag({[key |-> req.key, value |-> req.value]})
    ELSE hs

(***************************************************************************)
(* Settings as the proxy reads them.                                       *)
(***************************************************************************)
\* A check that does not look at the setting.
is_active_always(setting) == TRUE

\* Proxy.__is_active
is_active(setting) == setting

\* Proxy.__get_disabled_apps
get_disabled_apps(setting) ==
    LET parts == split(Chars(setting), ";")
    IN  [i \in 1..Len(parts) |-> lower(parts[i])]

\* x in list
InList(x, list) == \E i \in 1..Len(list) : list[i] = x

\* The base name without lower().
AppKeyCaseSensitive(app_name) == PathName(Chars(app_name))

\* Path(app_name).name.lower()
AppKey(app_name) == lower(PathName(Chars(app_name)))

\* Path(app_name).name.lower() in self.__get_disabled_apps(), for the
\* executables and the settings of the model.
IsDisabledApp ==
    [app_name \in Apps, setting \in DisabledAppsSettings |->
        InList(AppKey(app_name), get_disabled_apps(setting))]

\* The early return of on_about_to_run.
SkipsLaunch(app_name, enabled, apps_setting) ==
    \/ ~is_active(enabled)
    \/ IsDisabledApp[app_name, apps_setting]

\* A comparison that always asks for the swap.
NeedsSwapAlways(reg_value, game_folder) == TRUE

\* reg_value != game_folder
NeedsSwap(reg_value, game_folder) == reg_value # game_folder

\* An early return that does not look at the setting.
SkipsRestoreIgnoresSetting(enabled, slot) == slot = None

\* An early return that tests the slot the wrong way round.
SkipsRestoreWhenPending(enabled, slot) == ~is_active(enabled) \/ slot # None

\* The early return of on_finished_run.
SkipsRestore(enabled, slot) == ~is_active(enabled) \/ slot = None

(***************************************************************************)
(* State.                                                                  *)
(***************************************************************************)
VARIABLES
    enableProxy,        \* the "enableProxy" plugin setting
    disabled_apps,      \* the "disabled_apps" plugin setting
    gameShortName,      \* managedGame().gameShortName()
    registry,           \* the 32-bit view of the registry, per location
    original_reg_value, \* Proxy.__original_reg_value
    helpers,            \* elevated reg.exe processes started, not yet done
    running,            \* executables started by the host, not yet stopped
    lastCall,           \* what the latest callback did
    prevCall,           \* what the callback before it did
    swapApp,            \* app_name of the latest on_about_to_run that swapped
    swapRec             \* bookkeeping about the latest swap

vars ==
    <<enableProxy, disabled_apps, gameShortName, registry,
      original_reg_value, helpers, running, lastCall, prevCall, swapApp,
      swapRec>>

NotRead == "<not read>"

\* The record of a callback: op is "before" (on_about_to_run) or "after"
\* (on_finished_run); read: the registry was read, observed: what
\* get_reg_value returned; wrote: the value ShellExecuteW was called with;
\* launch: how ShellExecuteW went; result: what the callback returned.
Call(op, app, code, enabled, read, observed, preSlot, wrote, launch, result) ==
    [op |-> op, app |-> app, code |-> code, enabled |-> enabled,
     read |-> read, observed |-> observed, preSlot |-> preSlot,
     wrote |-> wrote, launch |-> launch, result |-> result]

NoCall ==
    Call("none", "", 0, FALSE, FALSE, NotRead, None, NoWrite, "n/a", "n/a")

\* What is kept of a callback once the next one has been called.
Earlier(c) ==
    [op |-> c.op, app |-> c.app, enabled |-> c.enabled,
     observed |-> c.observed, wrote |-> c.wrote]

\* Bookkeeping about the latest swap: recorded: an on_about_to_run has set
\* the slot and asked for the swap write; started: its reg.exe was started;
\* value: what it put in the slot; exited: an on_finished_run was called
\* since with the plugin enabled; restores: how many of those asked for a
\* write (0, 1, or 2 for more than one).
NoSwap ==
    [recorded |-> FALSE, started |-> FALSE, value |-> None, restores |-> 0,
     exited |-> FALSE]

Bump(n) == IF n < 2 THEN n + 1 ELSE n

\* Proxy.__init__ and GameRegistryProxy.init: the slot is empty; the
\* settings and the registry are what the host and the system hold.
Init ==
    /\ enableProxy \in BOOLEAN
    /\ disabled_apps \in DisabledAppsSettings
    /\ gameShortName \in ManagedGames
    /\ \E e \in InitialEntries :
          registry = [l \in Locations |->
                         IF l = GAME_REGISTRY_KEYS["SkyrimSE"]
                         THEN e ELSE NoKeyEntry]
    /\ original_reg_value = None
    /\ helpers = EmptyBag
    /\ running = {}
    /\ lastCall = NoCall
    /\ prevCall = Earlier(NoCall)
    /\ swapApp = ""
    /\ swapRec = NoSwap

(***************************************************************************)
(* Proxy.on_about_to_run, called by the host before it starts app_name.    *)
(* The registry read may fail (fault), ShellExecuteW may fail (outcome),   *)
(* and when the callback raises the host may or may not start app_name     *)
(* (spawned).                                                              *)
(***************************************************************************)
on_about_to_run(app_name) ==
    /\ app_name \notin running
    /\ BagCardinality(helpers) < MaxHelpers
    /\ LET skip == SkipsLaunch(app_name, enableProxy, disabled_apps)
           game_folder == get_game_folder
           didRead == ~skip /\ get_game_reg_key(gameShortName) # NoRegKey
       IN
       \E fault \in IF didRead THEN ReadFaults ELSE {"none"} :
       LET reg_value == get_reg_value(gameShortName, registry, fault)
           raised == ~skip /\ reg_value = Raised
           swap == ~skip /\ ~raised /\ NeedsSwap(reg_value, game_folder)
           calls == swap /\ set_reg_value(gameShortName, game_folder,
                                         NotCalled).issued
       IN
       \E outcome \in IF calls THEN LaunchOutcomes ELSE {NotCalled},
          spawned \in IF raised THEN BOOLEAN ELSE {TRUE} :
       LET req == set_reg_value(gameShortName, game_folder, outcome)
       IN  /\ original_reg_value' =
                  IF swap THEN reg_value ELSE original_reg_value
           /\ helpers' = IF swap THEN Launched(helpers, req) ELSE helpers
           /\ running' = IF spawned THEN running \cup {app_name} ELSE running
           /\ lastCall' =
                  Call("before", app_name, 0, enableProxy, didRead,
                       IF skip THEN NotRead ELSE reg_value,
                       original_reg_value,
                       IF swap /\ req.issued THEN req.value ELSE NoWrite,
                       IF swap THEN req.launch ELSE "n/a",
                       IF raised THEN "raised" ELSE "True")
           /\ prevCall' = Earlier(lastCall)
           /\ swapApp' = IF swap /\ req.issued THEN app_name ELSE swapApp
           /\ swapRec' =
                  IF swap /\ req.issued
                  THEN [recorded |-> TRUE, started |-> req.launch = "started",
                        value |-> reg_value, restores |-> 0,
                        exited |-> FALSE]
                  ELSE swapRec
    /\ UNCHANGED <<enableProxy, disabled_apps, gameShortName, registry>>

(***************************************************************************)
(* Proxy.on_finished_run, called by the host when app_name has stopped.    *)
(***************************************************************************)
on_finished_run(app_name, return_code) ==
    /\ app_name \in running
    /\ BagCardinality(helpers) < MaxHelpers
    /\ LET skip == SkipsRestore(enableProxy, original_reg_value)
           calls == ~skip /\ set_reg_value(gameShortName, original_reg_value,
                                          NotCalled).issued
       IN
       \E outcome \in IF calls THEN LaunchOutcomes ELSE {NotCalled} :
       LET req == set_reg_value(gameShortName, original_reg_value, outcome)
       IN  /\ original_reg_value' =
                  IF skip THEN original_reg_value ELSE None
           /\ helpers' = IF skip THEN helpers ELSE Launched(helpers, req)
           /\ lastCall' =
                  Call("after", app_name, return_code, enableProxy, FALSE,
                       NotRead, original_reg_value,
                       IF ~skip /\ req.issued THEN req.value ELSE NoWrite,
                       IF skip THEN "n/a" ELSE req.launch,
                       "None")
           /\ swapRec' =
                  IF ~swapRec.recorded \/ ~enableProxy THEN swapRec
                  ELSE [swapRec EXCEPT
                          !.exited = TRUE,
                          !.restores =
                              IF ~skip /\ req.issued THEN Bump(@) ELSE @]
    /\ running' = running \ {app_name}
    /\ prevCall' = Earlier(lastCall)
    /\ UNCHANGED <<enableProxy, disabled_apps, gameShortName, registry,
                   swapApp>>

(***************************************************************************)
(* GameRegistryProxy.display: the tool button toggles the plugin.          *)
(***************************************************************************)
display ==
    /\ enableProxy' = ~is_active(enableProxy)
    /\ UNCHANGED <<disabled_apps, gameShortName, registry,
                   original_reg_value, helpers, running, lastCall, prevCall,
                   swapApp, swapRec>>

(***************************************************************************)
(* An elevated reg.exe started by set_reg_value does its work:             *)
(* reg add "HKLM\<sub_key>" /v "<value_name>" /d "<value>" /f /reg:32      *)
(* creates the key when it is missing and sets the value.                  *)
(***************************************************************************)
reg_exe(h) ==
    /\ BagIn(h, helpers)
    /\ registry' = [registry EXCEPT ![h.key] = Sz(h.value)]
    /\ helpers' = helpers (-) SetToBag({h})
    /\ UNCHANGED <<enableProxy, disabled_apps, gameShortName,
                   original_reg_value, running, lastCall, prevCall, swapApp,
                   swapRec>>

Next ==
    \/ \E app_name \in Apps : on_about_to_run(app_name)
    \/ \E app_name \in Apps, return_code \in ReturnCodes :
          on_finished_run(app_name, return_code)
    \/ display
    \/ \E h \in BagToSet(helpers) : reg_exe(h)

Spec == Init /\ [][Next]_vars

(***************************************************************************)
(* The plugin with each game of the table, and with games it does not      *)
(* know, as the managed game.                                              *)
(***************************************************************************)
\* gameShortName() values the table does not have ("ttw": keys are matched
\* exactly).
UnknownGames == {"Starfield", "ttw"}

GamesInit ==
    /\ enableProxy = TRUE
    /\ disabled_apps = EmptyDisabledApps
    /\ gameShortName \in DOMAIN GAME_REGISTRY_KEYS \cup UnknownGames
    /\ registry = [l \in Locations |->
                      IF /\ gameShortName \in DOMAIN GAME_REGISTRY_KEYS
                         /\ l = GAME_REGISTRY_KEYS[gameShortName]
                      THEN Sz(OrigDir) ELSE NoKeyEntry]
    /\ original_reg_value = None
    /\ helpers = EmptyBag
    /\ running = {}
    /\ lastCall = NoCall
    /\ prevCall = Earlier(NoCall)
    /\ swapApp = ""
    /\ swapRec = NoSwap

GamesSpec == GamesInit /\ [][Next]_vars

(***************************************************************************)
(* Properties.                                                             *)
(***************************************************************************)
\* What get_reg_value would return now.
CurrentValue == get_reg_value(gameShortName, registry, "none")

\* The latest callback is on_finished_run(X, code), the callback before it
\* was on_about_to_run(X), both with the plugin enabled and X not excluded,
\* and every reg.exe that was started has done its work.
MatchedPair ==
    /\ lastCall.op = "after"
    /\ prevCall.op = "before"
    /\ prevCall.app = lastCall.app
    /\ lastCall.enabled
    /\ prevCall.enabled
    /\ ~IsDisabledApp[lastCall.app, disabled_apps]
    /\ prevCall.observed # Raised
    /\ helpers = EmptyBag

\* C1 - Restoration invariant: after on_about_to_run(X) followed by
\* on_finished_run(X, code), enabled and X not excluded, the registry value
\* is the value that was observed right before on_about_to_run.
C1_RestorationInvariant ==
    MatchedPair => CurrentValue = prevCall.observed

\* C2 - Absent-value round trip: when the registry value was absent before
\* on_about_to_run and the game folder was swapped in, the value is absent
\* again after the matching on_finished_run.
C2_AbsentRoundTrip ==
    (MatchedPair /\ prevCall.observed = None /\ prevCall.wrote # NoWrite)
        => (CurrentValue = None
            /\ registry[get_game_reg_key(gameShortName)].data # GameDir)

\* C3 - The value is reverted when the executable whose launch caused the
\* swap has stopped and not earlier: an on_finished_run that asks for the
\* restoring write is never that of another executable while the one that
\* swapped is still running.
C3_RevertWhenSwapperStops ==
    (lastCall.op = "after" /\ lastCall.wrote # NoWrite)
        => swapApp \notin running

\* C4 as stated - on_about_to_run with the registry value already equal to
\* the game folder writes nothing and leaves the slot empty.
C4_IdempotenceSlotEmpty ==
    (lastCall.op = "before" /\ lastCall.observed = get_game_folder)
        => (lastCall.wrote = NoWrite /\ original_reg_value = None)

\* C4 - Idempotence, amended: on_about_to_run with the registry value
\* already equal to the game folder writes nothing and leaves the slot as it
\* was (empty when it was empty, the pending original value otherwise).
C4_IdempotenceSlotUnchanged ==
    (lastCall.op = "before" /\ lastCall.observed = get_game_folder)
        => (lastCall.wrote = NoWrite
            /\ original_reg_value = lastCall.preSlot)

\* An on_about_to_run that found the game folder in the registry while an
\* original value was pending.
C4_Witness ==
    /\ lastCall.op = "before"
    /\ lastCall.observed = get_game_folder
    /\ lastCall.preSlot # None
    /\ original_reg_value = lastCall.preSlot

\* C5 - Disabled bypass: a callback made while the plugin is disabled
\* neither reads nor writes the registry and leaves the slot alone.
C5_DisabledBypass ==
    (lastCall.op # "none" /\ ~lastCall.enabled)
        => (/\ lastCall.wrote = NoWrite
            /\ ~lastCall.read
            /\ original_reg_value = lastCall.preSlot)

\* Both callbacks were made disabled while an original value was pending
\* and the registry did not hold the game folder.
C5_Witness ==
    /\ lastCall.op = "after" /\ ~lastCall.enabled
    /\ prevCall.op = "before" /\ ~prevCall.enabled
    /\ lastCall.preSlot # None
    /\ CurrentValue = GameDir

\* C6 - Exclusion bypass: with the default "disabled_apps" setting
\* on_about_to_run("...\SKSE64_LOADER.EXE") neither reads nor writes the
\* registry and leaves the slot alone.
C6_ExclusionBypass ==
    (/\ lastCall.op = "before"
     /\ lastCall.app = AppSkseUpper
     /\ disabled_apps = DefaultDisabledApps)
        => (/\ lastCall.wrote = NoWrite
            /\ ~lastCall.read
            /\ original_reg_value = lastCall.preSlot)

\* The excluded executable was started with the plugin enabled, a game the
\* table knows and a registry value that is not the game folder.
C6_Witness ==
    /\ lastCall.op = "before"
    /\ lastCall.app = AppSkseUpper
    /\ disabled_apps = DefaultDisabledApps
    /\ lastCall.enabled
    /\ CurrentValue = OrigDir

\* C7 - Unsupported game: with a game the table does not know, no callback
\* reads the registry or starts reg.exe, nothing is pending, and
\* on_about_to_run returns True.
C7_UnsupportedGame ==
    gameShortName \notin DOMAIN GAME_REGISTRY_KEYS
        => (/\ lastCall.wrote = NoWrite
            /\ ~lastCall.read
            /\ helpers = EmptyBag
            /\ original_reg_value = None
            /\ (lastCall.op = "before" => lastCall.result = "True"))

\* on_about_to_run and on_finished_run were called, enabled and for an
\* executable that is not excluded, with a game the table does not know.
C7_Witness ==
    /\ gameShortName \notin DOMAIN GAME_REGISTRY_KEYS
    /\ lastCall.op = "after" /\ lastCall.enabled
    /\ prevCall.op = "before" /\ prevCall.enabled
    /\ prevCall.app = lastCall.app
    /\ ~IsDisabledApp[lastCall.app, disabled_apps]

\* C8 - on_about_to_run never gates the launch: whatever the registry read
\* and the registry write do, it returns True.
C8_AlwaysReturnsTrue ==
    lastCall.op = "before" => lastCall.result = "True"

\* A swap write has been asked for that no on_finished_run has undone.
SwapInEffect == swapRec.recorded /\ swapRec.restores = 0

\* C9 - SwapState invariant: the slot is non-empty exactly when a swap is
\* in effect.
C9_SlotIffSwapInEffect ==
    (original_reg_value # None) <=> SwapInEffect

\* C10 - Restore exactly once: once an on_finished_run has been made with
\* the plugin enabled after a swap whose reg.exe was started, exactly one
\* restoring write has been asked for, and it wrote the recorded original
\* value.
C10_RestoreExactlyOnce ==
    /\ (swapRec.recorded /\ swapRec.started /\ swapRec.exited)
           => swapRec.restores = 1
    /\ (lastCall.op = "after" /\ lastCall.wrote # NoWrite)
           => lastCall.wrote = swapRec.value

\* C11 - on_finished_run restores whatever the return code and the
\* executable: called with the plugin enabled and the slot non-empty, it asks
\* for the write of the slot's value and empties the slot.
C11_RestoreUnconditional ==
    (lastCall.op = "after" /\ lastCall.enabled /\ lastCall.preSlot # None)
        => (/\ lastCall.wrote = lastCall.preSlot
            /\ original_reg_value = None)

\* The restoring on_finished_run was that of an executable of the
\* "disabled_apps" list that returned a non-zero code.
C11_Witness ==
    /\ lastCall.op = "after" /\ lastCall.enabled
    /\ lastCall.preSlot # None
    /\ lastCall.code = 1
    /\ IsDisabledApp[lastCall.app, disabled_apps]
    /\ lastCall.wrote = lastCall.preSlot
    /\ original_reg_value = None

\* C12 - on_finished_run never restores a value that was not displaced:
\* when the reg.exe of the swap could not be started, no on_finished_run
\* asks for a restoring write for that swap.
C12_NoRestoreOfUndisplaced ==
    (swapRec.recorded /\ ~swapRec.started) => swapRec.restores = 0

\* C13 - A displaced value is not lost to a swallowed error: when the swap
\* was started and the reg.exe of the restoring write could not be, the
\* slot still holds the original value.
C13_FailedRestoreKeepsSlot ==
    (/\ lastCall.op = "after"
     /\ lastCall.launch \in {"failed", "exception"}
     /\ swapRec.started)
        => original_reg_value = lastCall.preSlot

\* C14 - Overlapping launches: an on_about_to_run made right after the
\* swapping on_about_to_run of another executable that is still running
\* finds the game folder in the registry, writes nothing and leaves the
\* recorded original value alone.
C14_SecondLaunchIsNoOp ==
    (/\ lastCall.op = "before"
     /\ lastCall.enabled
     /\ ~IsDisabledApp[lastCall.app, disabled_apps]
     /\ lastCall.result = "True"
     /\ lastCall.preSlot # None
     /\ prevCall.op = "before"
     /\ prevCall.wrote # NoWrite
     /\ prevCall.app # lastCall.app
     /\ prevCall.app \in running)
        => (/\ lastCall.observed = get_game_folder
            /\ lastCall.wrote = NoWrite
            /\ original_reg_value = lastCall.preSlot)

\* C16 - Idle -> SwapPending -> Idle: once every executable that was started
\* has stopped and the latest on_finished_run was made with the plugin
\* enabled, the plugin is idle: the slot is empty and no swap is left
\* without its restoring write.
C16_IdleAfterMatchedExits ==
    (running = {} /\ lastCall.op = "after" /\ lastCall.enabled)
        => (original_reg_value = None /\ ~SwapInEffect)

\* C17 - Write ordering: after a swap of an existing folder and its
\* restore, both with reg.exe started, the registry holds the original
\* value once the helpers have finished, in whatever order they finish.
C17_OriginalAfterBothHelpers ==
    (/\ lastCall.op = "after"
     /\ lastCall.launch = "started"
     /\ prevCall.op = "before"
     /\ prevCall.wrote = GameDir
     /\ prevCall.observed = OrigDir
     /\ swapRec.started
     /\ helpers = EmptyBag)
        => (CurrentValue = OrigDir /\ CurrentValue # GameDir)

C15_AliasAndTotality ==
    /\ get_game_reg_key("TTW") # NoRegKey
    /\ get_game_reg_key("FalloutNV") = get_game_reg_key("TTW")
    /\ Cardinality(DOMAIN GAME_REGISTRY_KEYS) = 11
    /\ \A g \in DOMAIN GAME_REGISTRY_KEYS :
          /\ Len(get_game_reg_key(g)) = 3
          /\ get_game_reg_key(g)[1] = HKEY_LOCAL_MACHINE
    /\ \A g \in UnknownGames : get_game_reg_key(g) = NoRegKey
    /\ \A h \in BagToSet(helpers) :
          /\ h.key[1] = HKEY_LOCAL_MACHINE
          /\ gameShortName \in {"FalloutNV", "TTW"} =>
                /\ h.key[2] =
                      "Software\\WOW6432Node\\Bethesda Softworks\\FalloutNV"
                /\ h.key[3] = "Installed Path"
    /\ gameShortName \in UnknownGames =>
          (lastCall.wrote = NoWrite /\ ~lastCall.read /\ helpers = EmptyBag)

\* With "TTW" as the managed game the swap has been written to the
\* location of "FalloutNV".
C15_Witness ==
    /\ gameShortName = "TTW"
    /\ lastCall.op = "before"
    /\ lastCall.wrote = GameDir
    /\ registry[<<HKEY_LOCAL_MACHINE,
                  "Software\\WOW6432Node\\Bethesda Softworks\\FalloutNV",
                  "Installed Path">>] = Sz(GameDir)

====
